---- MODULE Spec2Model ----
(***************************************************************************)
(* BaseAdapter of packages/base/src/adapter/IAdapter.ts: the adapter       *)
(* status machine, its settings, the chain-config merge and the guards     *)
(* that gate init / connect / disconnect / addChain / switchChain.         *)
(*                                                                         *)
(* A chain config (CustomChainConfig) is a function from the keys it has   *)
(* to strings, so that a missing key and a supplied key are different.     *)
(* knownChainConfigs is a function from chain ids to chain configs.        *)
(* The lifecycle operations themselves are abstract in BaseAdapter; they   *)
(* are modelled from the adapter contract: each runs its guard, and on a   *)
(* passing guard drives the status transition the contract names.          *)
(***************************************************************************)
EXTENDS Integers, Sequences, FiniteSets, TLC

VARIABLES
  status,                 \* this.status
  name,                   \* this.name (fixed by the concrete adapter)
  clientId,               \* this.clientId ("" is undefined)
  sessionTime,            \* this.sessionTime
  web3AuthNetwork,        \* this.web3AuthNetwork
  useCoreKitKey,          \* this.useCoreKitKey: "undefined", "true", "false"
  chainConfig,            \* this.chainConfig (Null or a chain config)
  currentChainNamespace,  \* this.currentChainNamespace
  knownChainConfigs,      \* this.knownChainConfigs
  adapterData,            \* this.adapterData
  provider,               \* this.provider: "null" or "live"
  emitted,                \* the events the last call published, in order
  call,                   \* the last call and how it ended for its caller
  pending,                \* connect calls in flight, by the status their guard saw
  everReady,              \* history: status has been READY at some point
  passedChainIds          \* history: the chain ids the caller has registered

vars == <<status, name, clientId, sessionTime, web3AuthNetwork, useCoreKitKey,
          chainConfig, currentChainNamespace, knownChainConfigs, adapterData,
          provider, emitted, call, pending, everReady, passedChainIds>>

settingsVars == <<clientId, sessionTime, web3AuthNetwork, useCoreKitKey>>
chainVars == <<chainConfig, currentChainNamespace, knownChainConfigs>>

-----------------------------------------------------------------------------
(* ADAPTER_STATUS *)
NOT_READY == "not_ready"
READY == "ready"
CONNECTING == "connecting"
CONNECTED == "connected"
DISCONNECTED == "disconnected"
ERRORED == "errored"
ADAPTER_STATUS == {NOT_READY, READY, CONNECTING, CONNECTED, DISCONNECTED, ERRORED}

(* ADAPTER_EVENTS.ADAPTER_DATA_UPDATED *)
ADAPTER_DATA_UPDATED == "adapter_data_updated"

(* WALLET_ADAPTERS.WALLET_CONNECT_V2 and one other adapter name *)
WALLET_CONNECT_V2 == "wallet-connect-v2"
AdapterNames == {WALLET_CONNECT_V2, "auth"}

(* CHAIN_NAMESPACES used by the model *)
NS_EIP155 == "eip155"
NS_CASPER == "casper"
NS_OTHER == "other"
ChainNamespaces == {NS_EIP155, NS_CASPER, NS_OTHER}

(* public sessionTime = 86400 *)
DefaultSessionTime == 86400

(* the most connect calls the model keeps in flight at once *)
MaxPending == 2

-----------------------------------------------------------------------------
(* JavaScript values *)
Null == [null |-> "null"]
Undefined == "undefined"

(* own keys of a chain config *)
Has(cfg, k) == k \in DOMAIN cfg
Get(cfg, k) == IF k \in DOMAIN cfg THEN cfg[k] ELSE Undefined

(* { ...b, ...a }: the left operand wins *)
Spread_LeftWins(a, b) ==
  [k \in (DOMAIN a) \cup (DOMAIN b) |-> IF k \in DOMAIN a THEN a[k] ELSE b[k]]

(* { ...a, ...b } *)
Spread(a, b) ==
  [k \in (DOMAIN a) \cup (DOMAIN b) |-> IF k \in DOMAIN b THEN b[k] ELSE a[k]]

(* knownChainConfigs is an object literal: a key it does not own is looked  *)
(* up on Object.prototype, where "constructor" (among others) is found.    *)
ObjectPrototypeKeys == {"constructor"}
Inherited == [inherited |-> "Object.prototype"]

(* obj[key] *)
Lookup(obj, key) ==
  IF key \in DOMAIN obj THEN obj[key]
  ELSE IF key \in ObjectPrototypeKeys THEN Inherited
  ELSE Null

(* the own enumerable properties that ...(x || {}) copies *)
OwnProps(x) == IF x = Null \/ x = Inherited THEN [k \in {} |-> ""] ELSE x

(* the outcome of a guard or of a call: no error, or the error thrown *)
Ok == [err |-> "none", msg |-> ""]
Throw(kind, message) == [err |-> kind, msg |-> message]

-----------------------------------------------------------------------------
(* ChainRegistry: getChainConfig(chainNamespace, chainId) of chain/config.  *)
(* A missing chainId resolves to mainnet; namespace OTHER, a namespace      *)
(* without built-in chains (CASPER) and an unrecognised id resolve to null. *)
MainnetChainId == "0x1"
UnlistedChainId == "0x539"
RegistryDefault(chainNamespace, chainId) ==
  [chainNamespace |-> chainNamespace, chainId |-> chainId, rpcTarget |-> "registry-rpc"]
resolve(chainNamespace, chainId) ==
  LET finalChainId == IF chainId = Undefined THEN MainnetChainId ELSE chainId
  IN  IF chainNamespace = NS_OTHER THEN Null
      ELSE IF chainNamespace = NS_EIP155 /\ finalChainId = MainnetChainId
           THEN RegistryDefault(chainNamespace, finalChainId)
      ELSE Null

-----------------------------------------------------------------------------
(* knownChainConfigs[chainId] = chainConfig: the entry is replaced *)
addChainConfigTo_Replace(known, cfg) ==
  LET id == Get(cfg, "chainId")
  IN  [k \in (DOMAIN known) \cup {id} |-> IF k = id THEN cfg ELSE known[k]]

(* knownChainConfigs = { [chainId]: ... }: the other entries are lost *)
addChainConfigTo_DropsOthers(known, cfg) ==
  LET id == Get(cfg, "chainId")
  IN  [k \in {id} |-> Spread(OwnProps(Lookup(known, id)), cfg)]

(* no registration at all *)
addChainConfigTo_Skipped(known, cfg) == known

(* addChainConfig(chainConfig) applied to a known-chains map: the map after *)
addChainConfigTo(known, cfg) ==
  LET id == Get(cfg, "chainId")
      currentConfig == Lookup(known, id)
  IN  [k \in (DOMAIN known) \cup {id} |->
         IF k = id THEN Spread(OwnProps(currentConfig), cfg)
         ELSE known[k]]

(* protected addChainConfig(chainConfig): the new value of knownChainConfigs *)
addChainConfig(cfg) == addChainConfigTo(knownChainConfigs, cfg)

(* protected getChainConfig(chainId): knownChainConfigs[chainId] || null *)
getChainConfig(chainId) == Lookup(knownChainConfigs, chainId)

(* get chainConfigProxy *)
chainConfigProxy == chainConfig

(* get connnected *)
connnected == status = CONNECTED

-----------------------------------------------------------------------------
(* The guards: each yields Ok or the error it throws; none changes state.   *)

(* mutants of checkConnectionRequirements: the CONNECTED check left out;   *)
(* the final "not READY" check left out                                    *)
checkConnectionRequirements_NoConnectedCheck ==
  IF name = WALLET_CONNECT_V2 /\ status = CONNECTING THEN Ok
  ELSE IF status = CONNECTING THEN Throw("notReady", "Already connecting")
  ELSE IF status # READY THEN Throw("connectionError", "Wallet adapter is not ready yet")
  ELSE Ok
checkConnectionRequirements_NoReadyCheck ==
  IF name = WALLET_CONNECT_V2 /\ status = CONNECTING THEN Ok
  ELSE IF status = CONNECTING THEN Throw("notReady", "Already connecting")
  ELSE IF status = CONNECTED THEN Throw("connectionError", "Already connected")
  ELSE Ok

(* the WalletConnect V2 exception covering CONNECTED as well *)
checkConnectionRequirements_ExceptionWhenConnected ==
  IF name = WALLET_CONNECT_V2 /\ status \in {CONNECTING, CONNECTED} THEN Ok
  ELSE IF status = CONNECTING THEN Throw("notReady", "Already connecting")
  ELSE IF status = CONNECTED THEN Throw("connectionError", "Already connected")
  ELSE IF status # READY THEN Throw("connectionError", "Wallet adapter is not ready yet")
  ELSE Ok

checkConnectionRequirements ==
  IF name = WALLET_CONNECT_V2 /\ status = CONNECTING THEN Ok
  ELSE IF status = CONNECTING THEN Throw("notReady", "Already connecting")
  ELSE IF status = CONNECTED THEN Throw("connectionError", "Already connected")
  ELSE IF status # READY THEN Throw("connectionError", "Wallet adapter is not ready yet")
  ELSE Ok

(* the parameter checks of checkInitializationRequirements *)
initParamsCheck ==
  IF clientId = "" THEN Throw("invalidParams", "valid clientId")
  ELSE IF chainConfig = Null THEN Throw("invalidParams", "rpcTarget is required")
  ELSE IF ~Has(chainConfig, "rpcTarget") /\ Get(chainConfig, "chainNamespace") # NS_OTHER
       THEN Throw("invalidParams", "rpcTarget is required")
  ELSE IF ~Has(chainConfig, "chainId") /\ Get(chainConfig, "chainNamespace") # NS_OTHER
       THEN Throw("invalidParams", "chainID is required")
  ELSE Ok

(* the status checks of checkInitializationRequirements *)
initStatusCheck ==
  IF status = NOT_READY THEN Ok
  ELSE IF status = CONNECTED THEN Throw("notReady", "Already connected")
  ELSE IF status = READY THEN Throw("notReady", "Adapter is already initialized")
  ELSE Ok

(* mutants of checkInitializationRequirements: the READY check left out;   *)
(* the status checks run before the parameter checks                       *)
checkInitializationRequirements_NoReadyCheck ==
  IF initParamsCheck # Ok THEN initParamsCheck
  ELSE IF status = CONNECTED THEN Throw("notReady", "Already connected")
  ELSE Ok
checkInitializationRequirements_StatusFirst ==
  IF initStatusCheck # Ok THEN initStatusCheck ELSE initParamsCheck

(* every status but NOT_READY refused *)
checkInitializationRequirements_OnlyNotReady ==
  IF initParamsCheck # Ok THEN initParamsCheck
  ELSE IF status = NOT_READY THEN Ok
  ELSE IF status = CONNECTED THEN Throw("notReady", "Already connected")
  ELSE Throw("notReady", "Adapter is already initialized")

checkInitializationRequirements ==
  IF initParamsCheck # Ok THEN initParamsCheck ELSE initStatusCheck

(* mutant of checkDisconnectionRequirements: CONNECTING is let through too *)
checkDisconnectionRequirements_ConnectingToo ==
  IF status # CONNECTED /\ status # CONNECTING
  THEN Throw("disconnectionError", "Not connected with wallet")
  ELSE Ok

checkDisconnectionRequirements ==
  IF status # CONNECTED THEN Throw("disconnectionError", "Not connected with wallet")
  ELSE Ok

(* mutant of checkAddChainRequirements: init skips the namespace check too *)
checkAddChainRequirements_InitSkipsAll(cfg, init) ==
  IF init THEN Ok
  ELSE IF provider = "null" THEN Throw("notConnectedError", "Not connected with wallet.")
  ELSE IF currentChainNamespace # Get(cfg, "chainNamespace")
       THEN Throw("chainNamespaceNotAllowed", "This adapter doesn't support this chainNamespace")
  ELSE Ok

checkAddChainRequirements(cfg, init) ==
  IF ~init /\ provider = "null" THEN Throw("notConnectedError", "Not connected with wallet.")
  ELSE IF currentChainNamespace # Get(cfg, "chainNamespace")
       THEN Throw("chainNamespaceNotAllowed", "This adapter doesn't support this chainNamespace")
  ELSE Ok

checkSwitchChainRequirements(chainId, init) ==
  IF ~init /\ provider = "null" THEN Throw("notConnectedError", "Not connected with wallet.")
  ELSE IF Lookup(knownChainConfigs, chainId) = Null
       THEN Throw("chainConfigNotAdded", "Invalid chainId")
  ELSE Ok

-----------------------------------------------------------------------------
(* setAdapterSettings(options) past the READY gate: the four plain settings *)
(* are assigned before the chain config is looked at, so they stay         *)
(* assigned when the chain config is refused.                               *)
applyAdapterSettings(options) ==
  LET customChainConfig == options.chainConfig IN
  /\ sessionTime' = IF options.sessionTime # 0 THEN options.sessionTime ELSE sessionTime
  /\ clientId' = IF options.clientId # "" THEN options.clientId ELSE clientId
  /\ web3AuthNetwork' =
       IF options.web3AuthNetwork # "" THEN options.web3AuthNetwork ELSE web3AuthNetwork
  /\ useCoreKitKey' =
       IF options.useCoreKitKey # Undefined THEN options.useCoreKitKey ELSE useCoreKitKey
  /\ IF customChainConfig = Null
     THEN /\ UNCHANGED chainVars
          /\ call' = [op |-> "setAdapterSettings"] @@ Ok
     ELSE IF ~Has(customChainConfig, "chainNamespace")
     THEN /\ UNCHANGED chainVars
          /\ call' = [op |-> "setAdapterSettings"]
                       @@ Throw("notReady", "ChainNamespace is required")
     ELSE LET defaultChainConfig ==
                resolve(customChainConfig.chainNamespace, Get(customChainConfig, "chainId"))
              finalChainConfig == Spread(OwnProps(defaultChainConfig), customChainConfig)
          IN  /\ currentChainNamespace' = customChainConfig.chainNamespace
              /\ chainConfig' = finalChainConfig
              /\ knownChainConfigs' = addChainConfig(finalChainConfig)
              /\ call' = [op |-> "setAdapterSettings"] @@ Ok

(* mutant of setAdapterSettings: the READY gate left out *)
setAdapterSettings_Ungated(options) == applyAdapterSettings(options)

(* setAdapterSettings(options): a no-op when status is READY *)
(* the chain config validated before any setting is assigned *)
setAdapterSettings_Atomic(options) ==
  IF status = READY
  THEN /\ UNCHANGED <<settingsVars, chainVars>>
       /\ call' = [op |-> "setAdapterSettings"] @@ Ok
  ELSE IF options.chainConfig # Null /\ ~Has(options.chainConfig, "chainNamespace")
       THEN /\ UNCHANGED <<settingsVars, chainVars>>
            /\ call' = [op |-> "setAdapterSettings"] @@
                         Throw("notReady", "ChainNamespace is required")
       ELSE applyAdapterSettings(options)

(* the namespace check placed before the READY gate *)
setAdapterSettings_CheckBeforeGate(options) ==
  IF options.chainConfig # Null /\ ~Has(options.chainConfig, "chainNamespace")
  THEN /\ UNCHANGED <<settingsVars, chainVars>>
       /\ call' = [op |-> "setAdapterSettings"] @@
                    Throw("notReady", "ChainNamespace is required")
  ELSE IF status = READY
       THEN /\ UNCHANGED <<settingsVars, chainVars>>
            /\ call' = [op |-> "setAdapterSettings"] @@ Ok
       ELSE applyAdapterSettings(options)

setAdapterSettings(options) ==
  IF status = READY
  THEN /\ UNCHANGED <<settingsVars, chainVars>>
       /\ call' = [op |-> "setAdapterSettings"] @@ Ok
  ELSE applyAdapterSettings(options)

-----------------------------------------------------------------------------
(* The inputs the operations are called with. *)
Absent == Undefined
MkConfig(ns, id, rpc) ==
  LET full == [chainNamespace |-> ns, chainId |-> id, rpcTarget |-> rpc]
  IN  [k \in {x \in DOMAIN full : full[x] # Absent} |-> full[k]]

ChainIds == {MainnetChainId, UnlistedChainId}

(* options.chainConfig: none; a namespace alone, with a listed or an        *)
(* unlisted chain id, with an rpcTarget of the caller's; a namespace the    *)
(* registry has no chain for; the namespace that needs no chain; a config   *)
(* without a namespace                                                      *)
SettingsChainConfigs ==
  { Null,
    MkConfig(NS_EIP155, Absent, Absent),
    MkConfig(NS_EIP155, MainnetChainId, Absent),
    MkConfig(NS_EIP155, MainnetChainId, "custom-rpc"),
    MkConfig(NS_EIP155, UnlistedChainId, Absent),
    MkConfig(NS_CASPER, Absent, "custom-rpc"),
    MkConfig(NS_OTHER, Absent, Absent),
    MkConfig(Absent, MainnetChainId, Absent) }

(* the plain settings: none of them, or all four *)
PlainSettings ==
  { [clientId |-> "", sessionTime |-> 0, web3AuthNetwork |-> "", useCoreKitKey |-> Undefined],
    [clientId |-> "abc", sessionTime |-> 3600, web3AuthNetwork |-> "testnet",
     useCoreKitKey |-> "false"] }

SettingsInputs ==
  {p @@ [chainConfig |-> c] : p \in PlainSettings, c \in SettingsChainConfigs}

(* addChain(chainConfig): a CustomChainConfig has a namespace and a chain id *)
AddChainInputs ==
  { MkConfig(NS_EIP155, UnlistedChainId, "custom-rpc"),
    MkConfig(NS_EIP155, UnlistedChainId, Absent),
    MkConfig(NS_EIP155, MainnetChainId, "custom-rpc"),
    MkConfig(NS_OTHER, UnlistedChainId, Absent) }

(* the chain configs addChainConfig is applied to *)
ChainConfigInputs == AddChainInputs \cup (SettingsChainConfigs \ {Null})

(* switchChain({chainId}): any string *)
SwitchChainInputs == ChainIds \cup ObjectPrototypeKeys

AdapterDataInputs == {"data-1", "data-2"}

EmptyObject == [k \in {} |-> ""]
Event(kind, data) == [event |-> kind, data |-> data]

-----------------------------------------------------------------------------
(* Construction: the field initialisers, then setAdapterSettings({}).       *)
Init ==
  /\ status = NOT_READY
  /\ name \in AdapterNames
  /\ clientId = ""
  /\ sessionTime = DefaultSessionTime
  /\ web3AuthNetwork = "mainnet"
  /\ useCoreKitKey = Undefined
  /\ chainConfig = Null
  /\ currentChainNamespace = NS_EIP155
  /\ knownChainConfigs = EmptyObject
  /\ adapterData = "{}"
  /\ provider = "null"
  /\ emitted = <<>>
  /\ call = [op |-> "constructor"] @@ Ok
  /\ pending = [ready |-> 0, connecting |-> 0]
  /\ everReady = FALSE
  /\ passedChainIds = {}

SetAdapterSettingsWith(options) ==
    /\ setAdapterSettings(options)
    /\ emitted' = <<>>
    /\ passedChainIds' =
         IF call'.err = "none" /\ status # READY /\ options.chainConfig # Null
            /\ Has(options.chainConfig, "chainId")
         THEN passedChainIds \cup {options.chainConfig.chainId}
         ELSE passedChainIds
    /\ UNCHANGED <<status, name, adapterData, provider, pending, everReady>>

SetAdapterSettings == \E options \in SettingsInputs : SetAdapterSettingsWith(options)

(* the event published before the assignment, with the old metadata *)
updateAdapterData_StaleEvent(data) ==
  /\ adapterData' = data
  /\ emitted' = <<Event(ADAPTER_DATA_UPDATED, [adapterName |-> name, data |-> adapterData])>>
  /\ call' = [op |-> "updateAdapterData"] @@ Ok

(* updateAdapterData(data) *)
updateAdapterData(data) ==
  /\ adapterData' = data
  /\ emitted' = <<Event(ADAPTER_DATA_UPDATED, [adapterName |-> name, data |-> data])>>
  /\ call' = [op |-> "updateAdapterData"] @@ Ok

UpdateAdapterDataWith(data) ==
    /\ updateAdapterData(data)
    /\ UNCHANGED <<status, name, settingsVars, chainVars, provider, pending, everReady,
                   passedChainIds>>

UpdateAdapterData == \E data \in AdapterDataInputs : UpdateAdapterDataWith(data)

-----------------------------------------------------------------------------
(* The lifecycle operations of a concrete adapter, from the adapter         *)
(* contract: the guard first, then the status transition.                   *)

(* a rejection that also publishes ERRORED *)
Rejected_EmitsErrored(op, guard) ==
  /\ call' = [op |-> op] @@ guard
  /\ emitted' = <<Event(ERRORED, guard)>>
  /\ UNCHANGED <<status, name, settingsVars, chainVars, adapterData, provider,
                 pending, everReady, passedChainIds>>

Rejected(op, guard) ==
  /\ call' = [op |-> op] @@ guard
  /\ emitted' = <<>>
  /\ UNCHANGED <<status, name, settingsVars, chainVars, adapterData, provider,
                 pending, everReady, passedChainIds>>

init ==
  LET guard == checkInitializationRequirements IN
  IF guard # Ok THEN Rejected("init", guard)
  ELSE /\ status' = READY
       /\ everReady' = TRUE
       /\ emitted' = <<Event(READY, name)>>
       /\ call' = [op |-> "init"] @@ Ok
       /\ UNCHANGED <<name, settingsVars, chainVars, adapterData, provider, pending,
                      passedChainIds>>

(* connect: the guard and the move to CONNECTING run without suspending;    *)
(* the call then stays in flight until it resolves or rejects.              *)
connect ==
  LET guard == checkConnectionRequirements IN
  IF guard # Ok THEN Rejected("connect", guard)
  ELSE /\ pending.ready + pending.connecting < MaxPending
       /\ pending' = [pending EXCEPT ![IF status = READY THEN "ready" ELSE "connecting"] = @ + 1]
       /\ status' = CONNECTING
       /\ emitted' = <<Event(CONNECTING, name)>>
       /\ call' = [op |-> "connect"] @@ Ok
       /\ UNCHANGED <<name, settingsVars, chainVars, adapterData, provider, everReady,
                      passedChainIds>>

connectResolve ==
  \E saw \in {"ready", "connecting"} :
    /\ pending[saw] > 0
    /\ pending' = [pending EXCEPT ![saw] = @ - 1]
    /\ status' = CONNECTED
    /\ provider' = "live"
    /\ emitted' = <<Event(CONNECTED, name)>>
    /\ call' = [op |-> "connect.resolve"] @@ Ok
    /\ UNCHANGED <<name, settingsVars, chainVars, adapterData, everReady, passedChainIds>>

connectReject ==
  \E saw \in {"ready", "connecting"} :
    /\ pending[saw] > 0
    /\ pending' = [pending EXCEPT ![saw] = @ - 1]
    /\ status' = ERRORED
    /\ emitted' = <<Event(ERRORED, "error")>>
    /\ call' = [op |-> "connect.reject"] @@ Throw("connectionError", "Failed to connect")
    /\ UNCHANGED <<name, settingsVars, chainVars, adapterData, provider, everReady,
                   passedChainIds>>

disconnect ==
  LET guard == checkDisconnectionRequirements IN
  IF guard # Ok THEN Rejected("disconnect", guard)
  ELSE /\ status' = DISCONNECTED
       /\ provider' = "null"
       /\ emitted' = <<Event(DISCONNECTED, "")>>
       /\ call' = [op |-> "disconnect"] @@ Ok
       /\ UNCHANGED <<name, settingsVars, chainVars, adapterData, pending, everReady,
                      passedChainIds>>

addChain(cfg, isInit) ==
  LET guard == checkAddChainRequirements(cfg, isInit) IN
  IF guard # Ok THEN Rejected("addChain", guard)
  ELSE /\ knownChainConfigs' = addChainConfig(cfg)
       /\ passedChainIds' = passedChainIds \cup {Get(cfg, "chainId")}
       /\ emitted' = <<>>
       /\ call' = [op |-> "addChain"] @@ Ok
       /\ UNCHANGED <<status, name, settingsVars, chainConfig, currentChainNamespace,
                      adapterData, provider, pending, everReady>>

switchChain(chainId, isInit) ==
  LET guard == checkSwitchChainRequirements(chainId, isInit) IN
  IF guard # Ok THEN Rejected("switchChain", guard)
  ELSE /\ emitted' = <<>>
       /\ call' = [op |-> "switchChain"] @@ Ok
       /\ UNCHANGED <<status, name, settingsVars, chainVars, adapterData, provider,
                      pending, everReady, passedChainIds>>

AddChain == \E cfg \in AddChainInputs, isInit \in BOOLEAN : addChain(cfg, isInit)
SwitchChain == \E chainId \in SwitchChainInputs, isInit \in BOOLEAN : switchChain(chainId, isInit)

Next ==
  \/ SetAdapterSettings
  \/ init
  \/ connect
  \/ connectResolve
  \/ connectReject
  \/ disconnect
  \/ AddChain
  \/ SwitchChain

Spec == Init /\ [][Next]_vars

(* addChainConfig called on its own, as a subclass may, on any chain config *)
AddChainConfig ==
  \E cfg \in ChainConfigInputs :
    /\ knownChainConfigs' = addChainConfig(cfg)
    /\ call' = [op |-> "addChainConfig"] @@ Ok
    /\ emitted' = <<>>
    /\ passedChainIds' = passedChainIds \cup ({Get(cfg, "chainId")} \ {Undefined})
    /\ UNCHANGED <<status, name, settingsVars, chainConfig, currentChainNamespace,
                   adapterData, provider, pending, everReady>>

NextChains == AddChainConfig
SpecChains == Init /\ [][NextChains]_vars

(* every operation of the adapter, the metadata update included, on one *)
(* adapter name                                                         *)
InitAll == Init /\ name = "auth"
NextAll == Next \/ UpdateAdapterData
SpecAll == InitAll /\ [][NextAll]_vars

(* the settings, the lifecycle and the chain additions, on one adapter name *)
NextSettings ==
  \/ SetAdapterSettings
  \/ init
  \/ connect
  \/ connectResolve
  \/ connectReject
  \/ disconnect
  \/ AddChain
SpecSettings == InitAll /\ [][NextSettings]_vars

-----------------------------------------------------------------------------
(* The same adapter with updateAdapterData among its operations and without *)
(* the chain operations.                                                    *)
NextData ==
  \/ SetAdapterSettings
  \/ UpdateAdapterData
  \/ init
  \/ connect
  \/ connectResolve
  \/ connectReject
  \/ disconnect

SpecData == Init /\ [][NextData]_vars

-----------------------------------------------------------------------------
(* Properties *)

StatusNotReadyForConnect == {NOT_READY, DISCONNECTED, ERRORED}
NotReadyYet == Throw("connectionError", "Wallet adapter is not ready yet")

(* C1, as stated: the connect-guard passes only in READY; it throws         *)
(* connectionError "Already connected" in CONNECTED, notReady "Already      *)
(* connecting" in CONNECTING, and connectionError in NOT_READY,             *)
(* DISCONNECTED and ERRORED, for every adapter.                             *)
C1_ConnectGuardPassesOnlyInReady ==
  /\ (checkConnectionRequirements = Ok) <=> (status = READY)
  /\ status = CONNECTED =>
       checkConnectionRequirements = Throw("connectionError", "Already connected")
  /\ status = CONNECTING =>
       checkConnectionRequirements = Throw("notReady", "Already connecting")
  /\ status \in StatusNotReadyForConnect => checkConnectionRequirements = NotReadyYet

(* C1, amended: the same table, except that for the WalletConnect V2        *)
(* adapter the guard passes in CONNECTING; and a connect call that was      *)
(* rejected reports the error the table gives for the status it left.       *)
C1_ConnectGuardByStatus ==
  /\ (checkConnectionRequirements = Ok) <=>
       (status = READY \/ (status = CONNECTING /\ name = WALLET_CONNECT_V2))
  /\ status = CONNECTED =>
       checkConnectionRequirements = Throw("connectionError", "Already connected")
  /\ (status = CONNECTING /\ name # WALLET_CONNECT_V2) =>
       checkConnectionRequirements = Throw("notReady", "Already connecting")
  /\ status \in StatusNotReadyForConnect => checkConnectionRequirements = NotReadyYet
  /\ (call.op = "connect" /\ call.err # "none") =>
       call = [op |-> "connect"] @@ checkConnectionRequirements

(* a second connect after a successful one has been rejected *)
C1_Witness ==
  /\ status = CONNECTED
  /\ call = [op |-> "connect"] @@ Throw("connectionError", "Already connected")

(* C2: a connect whose guard passes in READY moves to CONNECTING and, when  *)
(* it resolves, to CONNECTED; no step leads from NOT_READY to CONNECTED,    *)
(* and CONNECTED is only reached after the status has been READY.           *)
C2_ConnectedOnlyThroughReady ==
  [][ /\ (status = READY /\ call'.op = "connect") =>
           (call'.err = "none" /\ status' = CONNECTING /\ pending'.ready = pending.ready + 1)
      /\ call'.op = "connect.resolve" => (status' = CONNECTED /\ provider' = "live")
      /\ status = NOT_READY => status' # CONNECTED
      /\ status' = CONNECTED => everReady'
    ]_vars

C2_Witness ==
  /\ status = CONNECTED
  /\ call.op = "connect.resolve"
  /\ everReady

(* C3: no two connect calls in flight have both passed the guard seeing     *)
(* READY.                                                                   *)
C3_NoTwoConnectsSawReady == pending.ready <= 1

(* C4, as stated: once the status has been READY, a call of                 *)
(* setAdapterSettings changes no setting and no chain configuration,        *)
(* whatever the status at the call.                                         *)
C4_FrozenOnceReady ==
  [][ (everReady /\ call'.op = "setAdapterSettings") =>
        UNCHANGED <<settingsVars, chainVars>> ]_vars

(* C4, amended: a call of setAdapterSettings made while the status is READY *)
(* changes no setting and no chain configuration, and raises no error.      *)
C4_FrozenWhileReady ==
  [][ (status = READY /\ call'.op = "setAdapterSettings") =>
        (UNCHANGED <<settingsVars, chainVars>> /\ call'.err = "none") ]_vars

C4_Witness ==
  /\ status = READY
  /\ everReady
  /\ call.op = "setAdapterSettings"

(* C5: every entry of the known-chains map and the active chain config      *)
(* have the namespace currentChainNamespace.                                *)
C5_SingleNamespace ==
  /\ \A id \in DOMAIN knownChainConfigs :
       Get(knownChainConfigs[id], "chainNamespace") = currentChainNamespace
  /\ chainConfig # Null => Get(chainConfig, "chainNamespace") = currentChainNamespace

(* C6: without a live provider and without isInit the switch-chain-guard    *)
(* throws notConnectedError; otherwise it passes for every registered chain *)
(* id and throws chainConfigNotAdded for every chain id the caller never    *)
(* passed to addChain or in a settings chain config.                        *)
C6_SwitchGuardByRegistration ==
  \A chainId \in SwitchChainInputs, isInit \in BOOLEAN :
    IF ~isInit /\ provider = "null"
    THEN checkSwitchChainRequirements(chainId, isInit).err = "notConnectedError"
    ELSE /\ chainId \in DOMAIN knownChainConfigs =>
              checkSwitchChainRequirements(chainId, isInit) = Ok
         /\ chainId \notin passedChainIds =>
              checkSwitchChainRequirements(chainId, isInit).err = "chainConfigNotAdded"

InitParamsValid == initParamsCheck = Ok

(* C7: with valid settings the init-guard throws notReady in READY and      *)
(* notReady "Already connected" in CONNECTED and passes in NOT_READY; an    *)
(* init called in READY is rejected with notReady and leaves READY.         *)
C7_InitGuardByStatus ==
  /\ [](InitParamsValid =>
          /\ status = READY =>
               checkInitializationRequirements =
                 Throw("notReady", "Adapter is already initialized")
          /\ status = CONNECTED =>
               checkInitializationRequirements = Throw("notReady", "Already connected")
          /\ status = NOT_READY => checkInitializationRequirements = Ok)
  /\ [][ (status = READY /\ call'.op = "init") =>
           (call'.err = "notReady" /\ status' = READY) ]_vars

C7_Witness ==
  /\ status = READY
  /\ call = [op |-> "init"] @@ Throw("notReady", "Adapter is already initialized")

(* C8: in every status the init-guard throws invalidParams when the client  *)
(* id is unset, when no chain config is set, and when the chain config of a *)
(* namespace other than OTHER lacks rpcTarget or chainId; with namespace    *)
(* OTHER a config lacking both is not refused for its parameters.           *)
C8_InitGuardParamsFirst ==
  /\ clientId = "" => checkInitializationRequirements.err = "invalidParams"
  /\ chainConfig = Null => checkInitializationRequirements.err = "invalidParams"
  /\ (chainConfig # Null /\ Get(chainConfig, "chainNamespace") # NS_OTHER
        /\ (~Has(chainConfig, "rpcTarget") \/ ~Has(chainConfig, "chainId"))) =>
       checkInitializationRequirements.err = "invalidParams"
  /\ (clientId # "" /\ chainConfig # Null /\ Get(chainConfig, "chainNamespace") = NS_OTHER) =>
       checkInitializationRequirements.err # "invalidParams"
  /\ (call.op = "init" /\ call.err # "none") =>
       call = [op |-> "init"] @@ checkInitializationRequirements

(* an init refused for its parameters in a status whose own check would    *)
(* have refused it too                                                     *)
C8_Witness ==
  /\ status = CONNECTED
  /\ call.op = "init"
  /\ call.err = "invalidParams"

(* C9: the disconnect-guard throws disconnectionError in every status but   *)
(* CONNECTED, where it passes; a rejected disconnect leaves the status.     *)
C9_DisconnectGuardOnlyConnected ==
  /\ []((checkDisconnectionRequirements = Ok) <=> (status = CONNECTED))
  /\ [](status # CONNECTED => checkDisconnectionRequirements.err = "disconnectionError")
  /\ [][ (status # CONNECTED /\ call'.op = "disconnect") =>
           (call'.err = "disconnectionError" /\ status' = status) ]_vars

C9_Witness ==
  /\ status = CONNECTING
  /\ call.op = "disconnect"
  /\ call.err = "disconnectionError"

(* C10: the add-chain-guard throws notConnectedError first (no isInit, no   *)
(* live provider), then chainNamespaceNotAllowed for a namespace other than *)
(* currentChainNamespace, also with isInit, and passes otherwise; an        *)
(* addChain that is admitted stores a config of currentChainNamespace.      *)
C10_AddChainGuard ==
  /\ [](\A cfg \in AddChainInputs, isInit \in BOOLEAN :
          checkAddChainRequirements(cfg, isInit) =
            IF ~isInit /\ provider = "null"
            THEN Throw("notConnectedError", "Not connected with wallet.")
            ELSE IF Get(cfg, "chainNamespace") # currentChainNamespace
            THEN Throw("chainNamespaceNotAllowed",
                       "This adapter doesn't support this chainNamespace")
            ELSE Ok)
  /\ [][ (call'.op = "addChain" /\ call'.err = "none") =>
           \A id \in DOMAIN knownChainConfigs' :
             (id \notin DOMAIN knownChainConfigs
                \/ knownChainConfigs'[id] # knownChainConfigs[id]) =>
               Get(knownChainConfigs'[id], "chainNamespace") = currentChainNamespace ]_vars

(* an addChain with isInit (no live provider) refused for its namespace *)
C10_Witness ==
  /\ provider = "null"
  /\ call.op = "addChain"
  /\ call.err = "chainNamespaceNotAllowed"


(* options.chainConfig is given and has, or lacks, a chainNamespace *)
LacksNamespace(options) ==
  options.chainConfig # Null /\ ~Has(options.chainConfig, "chainNamespace")
HasNamespace(options) ==
  options.chainConfig # Null /\ Has(options.chainConfig, "chainNamespace")

(* C11: a setAdapterSettings call that gets past the READY gate with a chain *)
(* config lacking a namespace fails with an invalidParams error.             *)
C11_NoNamespaceIsInvalidParams ==
  [][ \A options \in SettingsInputs :
        (call'.op = "setAdapterSettings" /\ status # READY /\ LacksNamespace(options)
           /\ SetAdapterSettingsWith(options)) =>
          call'.err = "invalidParams" ]_vars

(* result is the registry default for cfg's (namespace, chainId) overridden *)
(* field by field by cfg                                                    *)
MergedOverDefault(cfg, result) ==
  LET default == resolve(cfg.chainNamespace, Get(cfg, "chainId"))
  IN  /\ \A k \in DOMAIN cfg : Has(result, k) /\ result[k] = cfg[k]
      /\ default # Null =>
           /\ DOMAIN result = (DOMAIN default) \cup (DOMAIN cfg)
           /\ \A k \in (DOMAIN default) \ (DOMAIN cfg) : result[k] = default[k]
      /\ default = Null => result = cfg

(* the step is an accepted setAdapterSettings(options) whose chain config has *)
(* a namespace: the namespace and the active config are set from it           *)
SettingsSetActiveConfig(options) ==
  /\ call'.err = "none"
  /\ currentChainNamespace' = options.chainConfig.chainNamespace
  /\ MergedOverDefault(options.chainConfig, chainConfig')

(* C12 as claimed: an accepted setAdapterSettings with a namespaced chain   *)
(* config sets currentChainNamespace to that namespace, makes the active    *)
(* config the registry default overridden by the caller's config, and the   *)
(* known-chains entry under its chain id is the same merged config.         *)
C12_SettingsRegistersSameConfig ==
  [][ \A options \in SettingsInputs :
        (call'.op = "setAdapterSettings" /\ status # READY /\ HasNamespace(options)
           /\ SetAdapterSettingsWith(options)) =>
          /\ SettingsSetActiveConfig(options)
          /\ Lookup(knownChainConfigs', Get(chainConfig', "chainId")) = chainConfig' ]_vars

(* the entry is cfg merged over what was there before: cfg's fields with *)
(* cfg's values, every other field one that before had                   *)
MergedOverEntry(before, cfg, entry) ==
  /\ entry # Null /\ entry # Inherited
  /\ \A k \in DOMAIN cfg : Has(entry, k) /\ entry[k] = cfg[k]
  /\ \A k \in (DOMAIN entry) \ (DOMAIN cfg) :
       Has(OwnProps(before), k) /\ entry[k] = before[k]
  /\ \A k \in DOMAIN OwnProps(before) : Has(entry, k)

(* C12: an accepted setAdapterSettings with a namespaced chain config sets  *)
(* currentChainNamespace to that namespace, makes the active config the     *)
(* registry default overridden by the caller's config, and merges that      *)
(* config over the known-chains entry under its chain id; the other entries *)
(* stay.                                                                    *)
C12_SettingsMergesAndRegisters ==
  [][ \A options \in SettingsInputs :
        (call'.op = "setAdapterSettings" /\ status # READY /\ HasNamespace(options)
           /\ SetAdapterSettingsWith(options)) =>
          LET id == Get(chainConfig', "chainId")
          IN  /\ SettingsSetActiveConfig(options)
              /\ MergedOverEntry(Lookup(knownChainConfigs, id), chainConfig',
                                 Lookup(knownChainConfigs', id))
              /\ \A other \in (DOMAIN knownChainConfigs) \ {id} :
                   Lookup(knownChainConfigs', other) = knownChainConfigs[other] ]_vars

(* settings with {eip155, 0x1} and no rpcTarget were accepted: the registry's *)
(* rpcTarget is in the active config and in the registered entry              *)
C12_Witness ==
  /\ call = [op |-> "setAdapterSettings"] @@ Ok
  /\ status = NOT_READY
  /\ chainConfig = RegistryDefault(NS_EIP155, MainnetChainId)
  /\ Lookup(knownChainConfigs, MainnetChainId) = chainConfig

(* C13: addChainConfig is an idempotent merging upsert: on every reachable  *)
(* known-chains map, adding a config twice gives the map adding it once     *)
(* gives; adding a second config under the same chain id keeps the fields   *)
(* the second lacks and takes the second's value on the fields it has; the  *)
(* entries under other chain ids are unchanged.                             *)
C13_AddChainConfigIdempotentMerge ==
  \A c1, c2 \in ChainConfigInputs :
    LET id == Get(c1, "chainId")
        once == addChainConfigTo(knownChainConfigs, c1)
        twice == addChainConfigTo(once, c1)
        second == addChainConfigTo(once, c2)
    IN  /\ twice = once
        /\ \A k \in DOMAIN c1 : once[id][k] = c1[k]
        /\ Get(c2, "chainId") = id =>
             /\ \A k \in (DOMAIN once[id]) \ (DOMAIN c2) :
                  Has(second[id], k) /\ second[id][k] = once[id][k]
             /\ \A k \in DOMAIN c2 : second[id][k] = c2[k]
        /\ \A other \in (DOMAIN knownChainConfigs) \ {id} :
             Has(once, other) /\ once[other] = knownChainConfigs[other]
        /\ \A other \in (DOMAIN once) \ {Get(c2, "chainId")} :
             Has(second, other) /\ second[other] = once[other]

(* addChainConfig has added to a map that holds two chain ids, and the entry *)
(* of the unlisted chain has an rpcTarget                                   *)
C13_Witness ==
  /\ call = [op |-> "addChainConfig"] @@ Ok
  /\ {MainnetChainId, UnlistedChainId} \subseteq DOMAIN knownChainConfigs
  /\ Has(knownChainConfigs[UnlistedChainId], "rpcTarget")

(* C14: known-chain entries only accumulate: whatever the operation, a chain *)
(* id in the known-chains map is still in it after the step, and            *)
(* getChainConfig still finds it.                                           *)
C14_KnownChainsOnlyAccumulate ==
  [][ \A id \in DOMAIN knownChainConfigs :
        /\ id \in DOMAIN knownChainConfigs'
        /\ Lookup(knownChainConfigs', id) # Null ]_vars

(* two chain ids are still known after a disconnect *)
C14_Witness ==
  /\ status = DISCONNECTED
  /\ call.op = "disconnect"
  /\ {MainnetChainId, UnlistedChainId} \subseteq DOMAIN knownChainConfigs
  /\ getChainConfig(MainnetChainId) # Null
  /\ getChainConfig(UnlistedChainId) # Null

(* C15: setAdapterSettings called in READY is a no-op: no setting, chain  *)
(* config, namespace or known-chains entry changes and no error is raised, *)
(* also when the chain config given lacks a namespace.                     *)
C15_SettingsNoOpInReady ==
  [][ \A options \in SettingsInputs :
        (call'.op = "setAdapterSettings" /\ status = READY
           /\ SetAdapterSettingsWith(options)) =>
          /\ call' = [op |-> "setAdapterSettings"] @@ Ok
          /\ clientId' = clientId /\ sessionTime' = sessionTime
          /\ web3AuthNetwork' = web3AuthNetwork /\ useCoreKitKey' = useCoreKitKey
          /\ chainConfig' = chainConfig
          /\ currentChainNamespace' = currentChainNamespace
          /\ knownChainConfigs' = knownChainConfigs
          /\ status' = READY ]_vars

(* setAdapterSettings returned without error in READY, the adapter still *)
(* having the settings it was initialised with                           *)
C15_Witness ==
  /\ status = READY
  /\ call = [op |-> "setAdapterSettings"] @@ Ok
  /\ InitParamsValid
  /\ emitted = <<>>

(* C16: the connect-guard passes in CONNECTING for the WalletConnect V2      *)
(* adapter and for no other name, which gets notReady "Already connecting";  *)
(* in CONNECTED it throws "Already connected" for WalletConnect V2 too; a    *)
(* connect called in CONNECTING is admitted exactly for WalletConnect V2.    *)
C16_ConnectingExceptionOnlyWalletConnect ==
  /\ [](status = CONNECTING =>
          IF name = WALLET_CONNECT_V2 THEN checkConnectionRequirements = Ok
          ELSE checkConnectionRequirements = Throw("notReady", "Already connecting"))
  /\ []((status = CONNECTED /\ name = WALLET_CONNECT_V2) =>
          checkConnectionRequirements = Throw("connectionError", "Already connected"))
  /\ [][ (status = CONNECTING /\ call'.op = "connect") =>
           ((call'.err = "none") <=> (name = WALLET_CONNECT_V2)) ]_vars
  /\ [][ (status = CONNECTED /\ call'.op = "connect") =>
           (call'.msg = "Already connected" /\ status' = CONNECTED) ]_vars

(* a WalletConnect V2 connect was admitted while another one was in flight *)
C16_Witness ==
  /\ name = WALLET_CONNECT_V2
  /\ status = CONNECTING
  /\ call = [op |-> "connect"] @@ Ok
  /\ pending.connecting >= 1

(* the operations that start with a guard *)
GuardedOps == {"init", "connect", "disconnect", "addChain", "switchChain"}

C18_UpdateAdapterDataFrame ==
  /\ [](\A data \in AdapterDataInputs : ENABLED UpdateAdapterDataWith(data))
  /\ [][ \A data \in AdapterDataInputs :
           (call'.op = "updateAdapterData" /\ UpdateAdapterDataWith(data)) =>
             /\ call'.err = "none"
             /\ adapterData' = data
             /\ Len(emitted') = 1
             /\ emitted'[1] = Event(ADAPTER_DATA_UPDATED, [adapterName |-> name, data |-> data])
             /\ status' = status
             /\ UNCHANGED <<settingsVars, chainVars>> ]_vars

(* the metadata was replaced, after an earlier value, in status ERRORED *)
C18_Witness ==
  /\ status = ERRORED
  /\ call = [op |-> "updateAdapterData"] @@ Ok
  /\ adapterData = "data-2"
  /\ emitted = <<Event(ADAPTER_DATA_UPDATED, [adapterName |-> name, data |-> "data-2"])>>

(* C19: with valid settings the init-guard passes in every status but READY *)
(* and CONNECTED, so an init called in CONNECTING, DISCONNECTED or ERRORED  *)
(* is admitted and leads to READY; the connect-guard throws connectionError *)
(* in DISCONNECTED and ERRORED, and a connect called there is refused.      *)
C19_InitAdmittedOutsideReadyConnected ==
  /\ [](InitParamsValid =>
          ((checkInitializationRequirements = Ok) <=> (status \notin {READY, CONNECTED})))
  /\ [](status \in {DISCONNECTED, ERRORED} => checkConnectionRequirements = NotReadyYet)
  /\ [][ (status \in {CONNECTING, DISCONNECTED, ERRORED} /\ InitParamsValid
            /\ call'.op = "init") =>
           (call'.err = "none" /\ status' = READY) ]_vars
  /\ [][ (status \in {DISCONNECTED, ERRORED} /\ call'.op = "connect") =>
           (call'.err = "connectionError" /\ status' = status) ]_vars

(* an init was admitted while a connect was in flight *)
C19_Witness ==
  /\ status = READY
  /\ call = [op |-> "init"] @@ Ok
  /\ pending.ready + pending.connecting >= 1
  /\ provider = "null"

(* C20: whenever the active chain config is set, the known-chains map has  *)
(* an entry under its chain id, getChainConfig finds it, and the           *)
(* switch-chain-guard passes for that chain id with isInit = true, and     *)
(* with isInit = false when the provider is live.                          *)
C20_ActiveChainConfigRegistered ==
  chainConfig # Null =>
    LET id == Get(chainConfig, "chainId")
    IN  /\ id \in DOMAIN knownChainConfigs
        /\ getChainConfig(id) # Null
        /\ checkSwitchChainRequirements(id, TRUE) = Ok
        /\ provider = "live" => checkSwitchChainRequirements(id, FALSE) = Ok

(* a switchChain was admitted while the only known chain is the active one *)
C20_Witness ==
  /\ chainConfig # Null
  /\ Has(chainConfig, "chainId")
  /\ DOMAIN knownChainConfigs = {chainConfig.chainId}
  /\ call = [op |-> "switchChain"] @@ Ok

(* C21: a setAdapterSettings call that fails does so because its chain      *)
(* config lacks a namespace; it leaves the active chain config,             *)
(* currentChainNamespace and the known-chains map unchanged, but the        *)
(* session time, client id, network and core-key flag given in the same     *)
(* call are applied when the error is raised, and those not given stay.     *)
C21_FailedSettingsNotAtomic ==
  [][ \A options \in SettingsInputs :
        (call'.op = "setAdapterSettings" /\ call'.err # "none"
           /\ SetAdapterSettingsWith(options)) =>
          /\ LacksNamespace(options)
          /\ status # READY /\ status' = status
          /\ chainConfig' = chainConfig
          /\ currentChainNamespace' = currentChainNamespace
          /\ knownChainConfigs' = knownChainConfigs
          /\ sessionTime' = IF options.sessionTime # 0 THEN options.sessionTime
                            ELSE sessionTime
          /\ clientId' = IF options.clientId # "" THEN options.clientId ELSE clientId
          /\ web3AuthNetwork' = IF options.web3AuthNetwork # ""
                                THEN options.web3AuthNetwork ELSE web3AuthNetwork
          /\ useCoreKitKey' = IF options.useCoreKitKey # Undefined
                              THEN options.useCoreKitKey ELSE useCoreKitKey ]_vars

(* the call failed on a fresh adapter's chain state, and the four settings *)
(* are the ones a caller gives                                             *)
C21_Witness ==
  /\ call = [op |-> "setAdapterSettings"] @@ Throw("notReady", "ChainNamespace is required")
  /\ status = NOT_READY
  /\ chainConfig = Null
  /\ knownChainConfigs = EmptyObject
  /\ clientId = "abc"
  /\ sessionTime = 3600
  /\ web3AuthNetwork = "testnet"
  /\ useCoreKitKey = "false"

====
